---- MODULE Spec2Model ----
(***************************************************************************)
(* Admission webhooks of the ai-gateway-operator: the defaulters and       *)
(* validators of AiGateway and ModelRouter, and the validators of          *)
(* AiGatewayClass and ModelRouterClass with their default-class scan.      *)
(* Go strings are TLA+ strings, Go slices are sequences, a Go map is a     *)
(* function together with its nil flag.                                    *)
(***************************************************************************)
EXTENDS Integers, Sequences, FiniteSets, TLC

VARIABLES store, res, inflight, removed

vars == <<store, res, inflight, removed>>

(***************************************************************************)
(* Bounds of the model.                                                    *)
(***************************************************************************)
\* Most class objects the object store holds.
MaxStore == 2

\* Longest AiModels list of an instance candidate.
MaxModels == 2

\* Most admissions that have been decided and are not yet persisted.
MaxInflight == 2

(***************************************************************************)
(* Kinds and payloads.                                                     *)
(***************************************************************************)
InstanceKinds == {"AiGateway", "ModelRouter"}

ClassKinds == {"AiGatewayClass", "ModelRouterClass"}

Kinds == InstanceKinds \cup ClassKinds

Namespaces == {"default", "other"}

StoredNames == {"c1", "c2"}

Names == StoredNames \cup {"c3"}

testController == "test-controller"

\* The reserved annotation key of a class kind (both constants are named
\* DefaultClassAnnotation in the source, one per class webhook file).
DefaultClassAnnotation(kind) ==
    IF kind = "AiGatewayClass"
    THEN "aigateway.kubernetes.io/is-default-class"
    ELSE "modelrouter.kubernetes.io/is-default-class"

AnnotationKeys == {DefaultClassAnnotation(k) : k \in ClassKinds}

\* A Go map[string]string: nil, or a function from the keys it holds.
NilAnnotations == [isNil |-> TRUE, kv |-> <<>>]

MakeAnnotations(key, value) == [isNil |-> FALSE, kv |-> (key :> value)]

\* m[key] of Go: the zero value "" when the map is nil or lacks the key.
MapIndex(m, key) ==
    IF (~m.isNil) /\ key \in DOMAIN m.kv THEN m.kv[key] ELSE ""

\* Mutant of IsMarkedDefault: the key is only looked for, its value is not
\* compared with "true".
IsMarkedDefaultMut(annotations, key) ==
    (~annotations.isNil) /\ key \in DOMAIN annotations.kv

\* annotations != nil && annotations[DefaultClassAnnotation] == "true"
IsMarkedDefault(annotations, key) ==
    (~annotations.isNil) /\ MapIndex(annotations, key) = "true"

\* The annotation maps of class objects in the store.
StoredAnnotations ==
    {NilAnnotations} \cup {MakeAnnotations(k, "true") : k \in AnnotationKeys}

\* The annotation maps of class candidates.
CandidateAnnotations ==
    StoredAnnotations \cup
        {MakeAnnotations(k, w) : k \in AnnotationKeys, w \in {"false", "True"}}

ClassObject(kind, ns, name, ann, ctl) ==
    [type |-> kind, namespace |-> ns, name |-> name,
     annotations |-> ann, controller |-> ctl]

\* The zero value &T{} of each kind, as the tests build it.
ZeroObject(kind) ==
    CASE kind = "AiGateway" ->
           [type |-> kind, namespace |-> "", name |-> "",
            Port |-> 0, AiModels |-> <<>>]
      [] kind = "ModelRouter" ->
           [type |-> kind, namespace |-> "", name |-> "",
            Type |-> "", Port |-> 0, AiModels |-> <<>>]
      [] OTHER -> ClassObject(kind, "", "", NilAnnotations, "")

\* A nil runtime.Object.
NilObject == [type |-> "<nil>"]

\* %T of a payload.
GoType(obj) ==
    IF obj.type = "<nil>" THEN "<nil>" ELSE "*v1alpha1." \o obj.type

\* Whether text holds part as a substring.
Contains(text, part) ==
    \E i \in 1..(Len(text) - Len(part) + 1) :
        SubSeq(text, i, i + Len(part) - 1) = part

(***************************************************************************)
(* Errors and results of a handler.                                        *)
(***************************************************************************)
NoError == [kind |-> "nil", msg |-> "", wraps |-> ""]

\* fmt.Errorf without %w, and errors.New.
Errorf(msg) == [kind |-> "error", msg |-> msg, wraps |-> ""]

\* fmt.Errorf("...: %w", cause).
WrapErrorf(prefix, cause) ==
    [kind |-> "wrapError", msg |-> prefix \o cause, wraps |-> cause]

\* field.Invalid(path.Key(key), value, detail) in an ErrorList of one,
\* turned into an error by ToAggregate.
FieldInvalid(key, value, detail) ==
    "metadata.annotations[" \o key \o "]: Invalid value: \"" \o value
        \o "\": " \o detail

ToAggregate(allErrs) ==
    [kind |-> "aggregate", msg |-> allErrs[1], wraps |-> ""]

\* What a handler returns: (warnings, err), with the number of calls it
\* made of v.Client.List; a panic returns nothing.
Return(err, listCalls) ==
    [outcome |-> "return", warnings |-> <<>>, err |-> err,
     listCalls |-> listCalls]

Panic ==
    [outcome |-> "panic", warnings |-> <<>>, err |-> NoError, listCalls |-> 0]

Accepted(ret) == ret.outcome = "return" /\ ret.err = NoError

Rejected(ret) == ret.outcome = "return" /\ ret.err # NoError

(***************************************************************************)
(* The object store and its List call.                                     *)
(***************************************************************************)
ObjectKey(o) == <<o.type, o.namespace, o.name>>

ListErrors == {"connection refused", "context canceled"}

ListOK(items) == [ok |-> TRUE, items |-> items, cause |-> ""]

ListFailed(cause) == [ok |-> FALSE, items |-> <<>>, cause |-> cause]

RECURSIVE Orderings(_)
Orderings(S) ==
    IF S = {} THEN {<<>>}
    ELSE UNION {{<<x>> \o p : p \in Orderings(S \ {x})} : x \in S}

\* Client.List(ctx, &list) with no namespace option: every object of the
\* kind, of every namespace, in the order the store returns them, or an
\* error.
ListOutcomes(objects, kind, causes) ==
    {ListOK(p) : p \in Orderings({o \in objects : o.type = kind})}
        \cup {ListFailed(c) : c \in causes}

\* The validators the program builds: the Setup function of each class
\* webhook, and the struct literal with a client of the tests.
SetupAiGatewayClassWebhookWithManager == [Client |-> "client"]

SetupModelRouterClassWebhookWithManager == [Client |-> "nil"]

TestValidator == [Client |-> "client"]

Validators(kind) ==
    CASE kind = "AiGatewayClass" ->
           {SetupAiGatewayClassWebhookWithManager, TestValidator}
      [] kind = "ModelRouterClass" ->
           {SetupModelRouterClassWebhookWithManager, TestValidator}
      [] OTHER -> {[Client |-> "none"]}

(***************************************************************************)
(* AiGatewayClass validator.                                               *)
(***************************************************************************)
\* Mutant of AiGatewayClassScan: the name test is inverted, so the items
\* with another name are the ones skipped.
RECURSIVE AiGatewayClassScanMut(_, _, _)
AiGatewayClassScanMut(items, i, aiGatewayClass) ==
    IF i > Len(items) THEN 0
    ELSE IF items[i].name # aiGatewayClass.name
         THEN AiGatewayClassScanMut(items, i + 1, aiGatewayClass)
         ELSE IF IsMarkedDefault(items[i].annotations,
                                 DefaultClassAnnotation("AiGatewayClass"))
              THEN i
              ELSE AiGatewayClassScanMut(items, i + 1, aiGatewayClass)

\* Mutant of AiGatewayClassScan: the existing classes are tested for the
\* annotation of the router family.
RECURSIVE AiGatewayClassScanKeyMut(_, _, _)
AiGatewayClassScanKeyMut(items, i, aiGatewayClass) ==
    IF i > Len(items) THEN 0
    ELSE IF items[i].name = aiGatewayClass.name
         THEN AiGatewayClassScanKeyMut(items, i + 1, aiGatewayClass)
         ELSE IF IsMarkedDefault(items[i].annotations,
                                 DefaultClassAnnotation("ModelRouterClass"))
              THEN i
              ELSE AiGatewayClassScanKeyMut(items, i + 1, aiGatewayClass)

\* Mutant of AiGatewayClassScan: an item is skipped only when both its name
\* and its namespace are the candidate's.
RECURSIVE AiGatewayClassScanNsMut(_, _, _)
AiGatewayClassScanNsMut(items, i, aiGatewayClass) ==
    IF i > Len(items) THEN 0
    ELSE IF /\ items[i].name = aiGatewayClass.name
            /\ items[i].namespace = aiGatewayClass.namespace
         THEN AiGatewayClassScanNsMut(items, i + 1, aiGatewayClass)
         ELSE IF IsMarkedDefault(items[i].annotations,
                                 DefaultClassAnnotation("AiGatewayClass"))
              THEN i
              ELSE AiGatewayClassScanNsMut(items, i + 1, aiGatewayClass)

\* The loop over aiGatewayClassList.Items: the index of the first item
\* that has another name and is marked default (the break), 0 when the
\* loop ends without one.
RECURSIVE AiGatewayClassScan(_, _, _)
AiGatewayClassScan(items, i, aiGatewayClass) ==
    IF i > Len(items) THEN 0
    ELSE IF items[i].name = aiGatewayClass.name
         THEN AiGatewayClassScan(items, i + 1, aiGatewayClass)
         ELSE IF IsMarkedDefault(items[i].annotations,
                                 DefaultClassAnnotation("AiGatewayClass"))
              THEN i
              ELSE AiGatewayClassScan(items, i + 1, aiGatewayClass)

\* Mutant of validateAiGatewayClass: a candidate marked default is also
\* refused while an accepted admission of a default of another name waits
\* to be persisted, as a validator that serializes admissions would.
validateAiGatewayClassMut(v, aiGatewayClass, list) ==
    IF ~IsMarkedDefault(aiGatewayClass.annotations,
                        DefaultClassAnnotation("AiGatewayClass"))
    THEN Return(NoError, 0)
    ELSE IF v.Client = "nil" THEN Panic
    ELSE IF ~list.ok
    THEN Return(WrapErrorf("failed to list AiGatewayClass resources: ",
                           list.cause), 1)
    ELSE LET pending ==
               {c.obj.name : c \in {x \in inflight :
                  /\ x.kind = "AiGatewayClass"
                  /\ x.op # "ValidateDelete"
                  /\ x.ret.err.kind = "nil"
                  /\ x.obj.name # aiGatewayClass.name
                  /\ IsMarkedDefault(x.obj.annotations,
                                     DefaultClassAnnotation("AiGatewayClass"))}}
             i == AiGatewayClassScan(list.items, 1, aiGatewayClass)
         IN  IF i > 0 \/ pending # {}
             THEN Return(ToAggregate(
                    <<FieldInvalid(DefaultClassAnnotation("AiGatewayClass"),
                        "true",
                        "another AiGatewayClass already has the default class annotation set to 'true'. Only one AiGatewayClass can be marked as default")>>), 1)
             ELSE Return(NoError, 1)

\* Mutant of validateAiGatewayClass: the validator remembers the default it
\* saw and still refuses other candidates after that default has left the
\* store.
validateAiGatewayClassCacheMut(v, aiGatewayClass, list) ==
    IF ~IsMarkedDefault(aiGatewayClass.annotations,
                        DefaultClassAnnotation("AiGatewayClass"))
    THEN Return(NoError, 0)
    ELSE IF v.Client = "nil" THEN Panic
    ELSE IF ~list.ok
    THEN Return(WrapErrorf("failed to list AiGatewayClass resources: ",
                           list.cause), 1)
    ELSE LET i == AiGatewayClassScan(list.items, 1, aiGatewayClass)
             cached == /\ removed.kind = "AiGatewayClass"
                       /\ removed.name # aiGatewayClass.name
         IN  IF i > 0 \/ cached
             THEN Return(ToAggregate(
                    <<FieldInvalid(DefaultClassAnnotation("AiGatewayClass"),
                        "true",
                        "another AiGatewayClass '"
                          \o (IF i > 0 THEN list.items[i].name
                              ELSE removed.name)
                          \o "' already has the default class annotation set to 'true'. Only one AiGatewayClass can be marked as default")>>), 1)
             ELSE Return(NoError, 1)

\* validateAiGatewayClass; list is the outcome of v.Client.List if it is
\* called.
validateAiGatewayClass(v, aiGatewayClass, list) ==
    IF ~IsMarkedDefault(aiGatewayClass.annotations,
                        DefaultClassAnnotation("AiGatewayClass"))
    THEN Return(NoError, 0)
    ELSE IF v.Client = "nil" THEN Panic
    ELSE IF ~list.ok
    THEN Return(WrapErrorf("failed to list AiGatewayClass resources: ",
                           list.cause), 1)
    ELSE LET i == AiGatewayClassScan(list.items, 1, aiGatewayClass)
             allErrs ==
               IF i = 0 THEN <<>>
               ELSE <<FieldInvalid(DefaultClassAnnotation("AiGatewayClass"),
                        "true",
                        "another AiGatewayClass '" \o list.items[i].name
                          \o "' already has the default class annotation set to 'true'. Only one AiGatewayClass can be marked as default")>>
         IN  IF Len(allErrs) > 0
             THEN Return(ToAggregate(allErrs), 1)
             ELSE Return(NoError, 1)

AiGatewayClassValidateCreate(v, obj, list) ==
    IF obj.type # "AiGatewayClass"
    THEN Return(Errorf("expected a AiGatewayClass object but got "
                       \o GoType(obj)), 0)
    ELSE validateAiGatewayClass(v, obj, list)

\* Mutant of AiGatewayClassValidateUpdate: the prior object is type-checked
\* too.
AiGatewayClassValidateUpdateMut(v, oldObj, newObj, list) ==
    IF newObj.type # "AiGatewayClass" \/ oldObj.type # "AiGatewayClass"
    THEN Return(Errorf("expected a AiGatewayClass object for the newObj but got "
                       \o GoType(newObj)), 0)
    ELSE validateAiGatewayClass(v, newObj, list)

AiGatewayClassValidateUpdate(v, oldObj, newObj, list) ==
    IF newObj.type # "AiGatewayClass"
    THEN Return(Errorf("expected a AiGatewayClass object for the newObj but got "
                       \o GoType(newObj)), 0)
    ELSE validateAiGatewayClass(v, newObj, list)

\* Mutant of AiGatewayClassValidateDelete: the payload is type-checked, as
\* the delete handlers of the instance kinds do.
AiGatewayClassValidateDeleteMut(v, obj) ==
    IF obj.type # "AiGatewayClass"
    THEN Return(Errorf("expected a AiGatewayClass object but got "
                       \o GoType(obj)), 0)
    ELSE Return(NoError, 0)

AiGatewayClassValidateDelete(v, obj) == Return(NoError, 0)

(***************************************************************************)
(* ModelRouterClass validator.                                             *)
(***************************************************************************)
\* Mutant of ModelRouterClassScan: the item with the candidate's own name is
\* not skipped.
RECURSIVE ModelRouterClassScanMut(_, _, _)
ModelRouterClassScanMut(items, i, modelRouterClass) ==
    IF i > Len(items) THEN 0
    ELSE IF IsMarkedDefault(items[i].annotations,
                            DefaultClassAnnotation("ModelRouterClass"))
         THEN i
         ELSE ModelRouterClassScanMut(items, i + 1, modelRouterClass)

\* The loop over modelRouterClassList.Items, as AiGatewayClassScan.
\* Mutant of ModelRouterClassScan: the loop has no break, so the last
\* conflict of the listing is the one reported.
RECURSIVE ModelRouterClassScanLastMut(_, _, _)
ModelRouterClassScanLastMut(items, i, modelRouterClass) ==
    IF i > Len(items) THEN 0
    ELSE LET later ==
               ModelRouterClassScanLastMut(items, i + 1, modelRouterClass)
         IN  IF later > 0 THEN later
             ELSE IF /\ items[i].name # modelRouterClass.name
                     /\ IsMarkedDefault(items[i].annotations,
                           DefaultClassAnnotation("ModelRouterClass"))
                  THEN i
                  ELSE 0

\* Mutant of ModelRouterClassScan: when the candidate's own name is found
\* marked default in the listing, the candidate is taken to be the default
\* already and the scan ends without a conflict.
RECURSIVE ModelRouterClassScanSelfMut(_, _, _)
ModelRouterClassScanSelfMut(items, i, modelRouterClass) ==
    IF i > Len(items) THEN 0
    ELSE IF \E k \in 1..Len(items) :
               /\ items[k].name = modelRouterClass.name
               /\ IsMarkedDefault(items[k].annotations,
                     DefaultClassAnnotation("ModelRouterClass"))
         THEN 0
         ELSE IF /\ items[i].name # modelRouterClass.name
                 /\ IsMarkedDefault(items[i].annotations,
                       DefaultClassAnnotation("ModelRouterClass"))
              THEN i
              ELSE ModelRouterClassScanSelfMut(items, i + 1, modelRouterClass)

RECURSIVE ModelRouterClassScan(_, _, _)
ModelRouterClassScan(items, i, modelRouterClass) ==
    IF i > Len(items) THEN 0
    ELSE IF items[i].name = modelRouterClass.name
         THEN ModelRouterClassScan(items, i + 1, modelRouterClass)
         ELSE IF IsMarkedDefault(items[i].annotations,
                                 DefaultClassAnnotation("ModelRouterClass"))
              THEN i
              ELSE ModelRouterClassScan(items, i + 1, modelRouterClass)

\* Mutant of validateModelRouterClass: the error of List is dropped and the
\* scan runs over the empty list it left.
validateModelRouterClassMut(v, modelRouterClass, list) ==
    IF ~IsMarkedDefault(modelRouterClass.annotations,
                        DefaultClassAnnotation("ModelRouterClass"))
    THEN Return(NoError, 0)
    ELSE IF v.Client = "nil" THEN Panic
    ELSE LET i == ModelRouterClassScan(list.items, 1, modelRouterClass)
         IN  IF i > 0
             THEN Return(ToAggregate(
                    <<FieldInvalid(DefaultClassAnnotation("ModelRouterClass"),
                        "true",
                        "another ModelRouterClass '" \o list.items[i].name
                          \o "' already has the default class annotation set to 'true'. Only one ModelRouterClass can be marked as default")>>), 1)
             ELSE Return(NoError, 1)

validateModelRouterClass(v, modelRouterClass, list) ==
    IF ~IsMarkedDefault(modelRouterClass.annotations,
                        DefaultClassAnnotation("ModelRouterClass"))
    THEN Return(NoError, 0)
    ELSE IF v.Client = "nil" THEN Panic
    ELSE IF ~list.ok
    THEN Return(WrapErrorf("failed to list ModelRouterClass resources: ",
                           list.cause), 1)
    ELSE LET i == ModelRouterClassScan(list.items, 1, modelRouterClass)
             allErrs ==
               IF i = 0 THEN <<>>
               ELSE <<FieldInvalid(DefaultClassAnnotation("ModelRouterClass"),
                        "true",
                        "another ModelRouterClass '" \o list.items[i].name
                          \o "' already has the default class annotation set to 'true'. Only one ModelRouterClass can be marked as default")>>
         IN  IF Len(allErrs) > 0
             THEN Return(ToAggregate(allErrs), 1)
             ELSE Return(NoError, 1)

ModelRouterClassValidateCreate(v, obj, list) ==
    IF obj.type # "ModelRouterClass"
    THEN Return(Errorf("expected a ModelRouterClass object but got "
                       \o GoType(obj)), 0)
    ELSE validateModelRouterClass(v, obj, list)

ModelRouterClassValidateUpdate(v, oldObj, newObj, list) ==
    IF newObj.type # "ModelRouterClass"
    THEN Return(Errorf("expected a ModelRouterClass object for the newObj but got "
                       \o GoType(newObj)), 0)
    ELSE validateModelRouterClass(v, newObj, list)

ModelRouterClassValidateDelete(v, obj) == Return(NoError, 0)

(***************************************************************************)
(* AiGateway and ModelRouter: defaulters and spec validators.              *)
(***************************************************************************)
providerModelSeparator == "/"

\* The index of the first separator in s, 0 when there is none.
RECURSIVE IndexFrom(_, _, _)
IndexFrom(s, sep, i) ==
    IF i > Len(s) THEN 0
    ELSE IF SubSeq(s, i, i) = sep THEN i
    ELSE IndexFrom(s, sep, i + 1)

\* The index of the last separator in s at or before i, 0 when there is
\* none.
RECURSIVE LastIndexFrom(_, _, _)
LastIndexFrom(s, sep, i) ==
    IF i < 1 THEN 0
    ELSE IF SubSeq(s, i, i) = sep THEN i
    ELSE LastIndexFrom(s, sep, i - 1)

\* Mutant of Cut: the string is split at the last separator.
CutMut(s, sep) ==
    LET i == LastIndexFrom(s, sep, Len(s))
    IN  IF i = 0
        THEN [before |-> s, after |-> "", found |-> FALSE]
        ELSE [before |-> SubSeq(s, 1, i - 1),
              after |-> SubSeq(s, i + 1, Len(s)), found |-> TRUE]

\* strings.Cut(s, sep) for a separator of one character.
Cut(s, sep) ==
    LET i == IndexFrom(s, sep, 1)
    IN  IF i = 0
        THEN [before |-> s, after |-> "", found |-> FALSE]
        ELSE [before |-> SubSeq(s, 1, i - 1),
              after |-> SubSeq(s, i + 1, Len(s)), found |-> TRUE]

\* %q of a string without characters to escape.
Quote(s) == "\"" \o s \o "\""

\* %d of an int32.
FormatInt(n) == ToString(n)

DefaultPort == 4000

\* What Default returns: the error, and the object as Default leaves it.
Defaulted(err, obj) == [outcome |-> "return", err |-> err, obj |-> obj]

\* Mutant of AiGatewayDefault: the port is defaulted when it is negative,
\* not when it is 0.
AiGatewayDefaultMut(obj) ==
    IF obj.type # "AiGateway"
    THEN Defaulted(Errorf("expected an AiGateway object but got "
                          \o GoType(obj)), obj)
    ELSE IF obj.Port < 0
         THEN Defaulted(NoError, [obj EXCEPT !.Port = DefaultPort])
         ELSE Defaulted(NoError, obj)

AiGatewayDefault(obj) ==
    IF obj.type # "AiGateway"
    THEN Defaulted(Errorf("expected an AiGateway object but got "
                          \o GoType(obj)), obj)
    ELSE IF obj.Port = 0
         THEN Defaulted(NoError, [obj EXCEPT !.Port = DefaultPort])
         ELSE Defaulted(NoError, obj)

\* Mutant of ModelRouterDefault: every non-positive port is defaulted.
ModelRouterDefaultMut(obj) ==
    IF obj.type # "ModelRouter"
    THEN Defaulted(Errorf("expected an ModelRouter object but got "
                          \o GoType(obj)), obj)
    ELSE IF obj.Port <= 0
         THEN Defaulted(NoError, [obj EXCEPT !.Port = DefaultPort])
         ELSE Defaulted(NoError, obj)

ModelRouterDefault(obj) ==
    IF obj.type # "ModelRouter"
    THEN Defaulted(Errorf("expected an ModelRouter object but got "
                          \o GoType(obj)), obj)
    ELSE IF obj.Port = 0
         THEN Defaulted(NoError, [obj EXCEPT !.Port = DefaultPort])
         ELSE Defaulted(NoError, obj)

\* The loop over AiModels: the error of the first model that fails, NoError
\* when every model passes.
RECURSIVE AiGatewayModelsLoop(_, _)
AiGatewayModelsLoop(models, i) ==
    IF i > Len(models) THEN NoError
    ELSE IF models[i].Name = ""
         THEN Errorf("AI model name cannot be empty")
         ELSE LET c == Cut(models[i].Name, providerModelSeparator)
              IN  IF (~c.found) \/ c.before = "" \/ c.after = ""
                  THEN Errorf("model " \o Quote(models[i].Name)
                         \o " is malformed; format must be 'provider/model-name'")
                  ELSE AiGatewayModelsLoop(models, i + 1)

validateAiGatewaySpec(aiGateway) ==
    IF aiGateway.Port <= 0
    THEN Return(Errorf("aiGateway port must be positive, got: "
                       \o FormatInt(aiGateway.Port)), 0)
    ELSE IF Len(aiGateway.AiModels) = 0
    THEN Return(Errorf("no AI models specified in AiGateway"), 0)
    ELSE Return(AiGatewayModelsLoop(aiGateway.AiModels, 1), 0)

AiGatewayValidateCreate(obj) ==
    IF obj.type # "AiGateway"
    THEN Return(Errorf("expected a AiGateway object but got "
                       \o GoType(obj)), 0)
    ELSE validateAiGatewaySpec(obj)

\* Mutant of AiGatewayValidateUpdate: the error does not say what type the
\* payload has.
AiGatewayValidateUpdateMut(oldObj, newObj) ==
    IF newObj.type # "AiGateway"
    THEN Return(Errorf("expected a AiGateway object for the newObj"), 0)
    ELSE validateAiGatewaySpec(newObj)

AiGatewayValidateUpdate(oldObj, newObj) ==
    IF newObj.type # "AiGateway"
    THEN Return(Errorf("expected a AiGateway object for the newObj but got "
                       \o GoType(newObj)), 0)
    ELSE validateAiGatewaySpec(newObj)

AiGatewayValidateDelete(obj) ==
    IF obj.type # "AiGateway"
    THEN Return(Errorf("expected a AiGateway object but got "
                       \o GoType(obj)), 0)
    ELSE Return(NoError, 0)

RECURSIVE ModelRouterModelsLoop(_, _)
ModelRouterModelsLoop(models, i) ==
    IF i > Len(models) THEN NoError
    ELSE IF models[i].Name = ""
         THEN Errorf("AI model name cannot be empty")
         ELSE LET c == Cut(models[i].Name, providerModelSeparator)
              IN  IF (~c.found) \/ c.before = "" \/ c.after = ""
                  THEN Errorf("model " \o Quote(models[i].Name)
                         \o " is malformed; format must be 'provider/model-name'")
                  ELSE ModelRouterModelsLoop(models, i + 1)

validateModelRouterSpec(modelRouter) ==
    IF modelRouter.Type = ""
    THEN Return(Errorf("model router must specify a type"), 0)
    ELSE IF modelRouter.Port <= 0
    THEN Return(Errorf("modelRouter port must be positive, got: "
                       \o FormatInt(modelRouter.Port)), 0)
    ELSE IF Len(modelRouter.AiModels) = 0
    THEN Return(Errorf("no AI models specified in ModelRouter"), 0)
    ELSE Return(ModelRouterModelsLoop(modelRouter.AiModels, 1), 0)

ModelRouterValidateCreate(obj) ==
    IF obj.type # "ModelRouter"
    THEN Return(Errorf("expected a ModelRouter object but got "
                       \o GoType(obj)), 0)
    ELSE validateModelRouterSpec(obj)

ModelRouterValidateUpdate(oldObj, newObj) ==
    IF newObj.type # "ModelRouter"
    THEN Return(Errorf("expected a ModelRouter object for the newObj but got "
                       \o GoType(newObj)), 0)
    ELSE validateModelRouterSpec(newObj)

\* Mutant of ModelRouterValidateDelete: the spec is validated on delete as
\* it is on create.
ModelRouterValidateDeleteMut(obj) ==
    IF obj.type # "ModelRouter"
    THEN Return(Errorf("expected a ModelRouter object but got "
                       \o GoType(obj)), 0)
    ELSE validateModelRouterSpec(obj)

ModelRouterValidateDelete(obj) ==
    IF obj.type # "ModelRouter"
    THEN Return(Errorf("expected a ModelRouter object but got "
                       \o GoType(obj)), 0)
    ELSE Return(NoError, 0)

(***************************************************************************)
(* The admission entry points, as the transport calls them.                *)
(***************************************************************************)
ValidateCreate(kind, v, obj, list) ==
    CASE kind = "AiGateway" -> AiGatewayValidateCreate(obj)
      [] kind = "ModelRouter" -> ModelRouterValidateCreate(obj)
      [] kind = "AiGatewayClass" -> AiGatewayClassValidateCreate(v, obj, list)
      [] kind = "ModelRouterClass" ->
           ModelRouterClassValidateCreate(v, obj, list)

ValidateUpdate(kind, v, oldObj, newObj, list) ==
    CASE kind = "AiGateway" -> AiGatewayValidateUpdate(oldObj, newObj)
      [] kind = "ModelRouter" -> ModelRouterValidateUpdate(oldObj, newObj)
      [] kind = "AiGatewayClass" ->
           AiGatewayClassValidateUpdate(v, oldObj, newObj, list)
      [] kind = "ModelRouterClass" ->
           ModelRouterClassValidateUpdate(v, oldObj, newObj, list)

ValidateDelete(kind, v, obj) ==
    CASE kind = "AiGateway" -> AiGatewayValidateDelete(obj)
      [] kind = "ModelRouter" -> ModelRouterValidateDelete(obj)
      [] kind = "AiGatewayClass" -> AiGatewayClassValidateDelete(v, obj)
      [] kind = "ModelRouterClass" -> ModelRouterClassValidateDelete(v, obj)

Default(kind, obj) ==
    IF kind = "AiGateway" THEN AiGatewayDefault(obj)
    ELSE ModelRouterDefault(obj)

(***************************************************************************)
(* Inputs.                                                                 *)
(***************************************************************************)
\* No List call was made.
NoList == [ok |-> FALSE, items |-> <<>>, cause |-> ""]

\* No admission call is being answered.
NoCall == [op |-> "none"]

\* No default class has left the store yet.
NoClass == [kind |-> "", name |-> ""]

\* One admission call and its answer: the receiver v, the payloads, the
\* outcome of the List call when one was made, what the handler returned
\* and the proposed object as the handler left it.
Call(op, kind, v, oldObj, obj, list, ret, after) ==
    [op |-> op, kind |-> kind, v |-> v, oldObj |-> oldObj, obj |-> obj,
     list |-> IF ret.listCalls > 0 THEN list ELSE NoList,
     ret |-> ret, after |-> after]

\* For an instance kind there is no client and nothing to list.
Listings(objects, kind, causes) ==
    IF kind \in ClassKinds THEN ListOutcomes(objects, kind, causes)
    ELSE {NoList}

OtherKind(kind) ==
    CASE kind = "AiGateway" -> "AiGatewayClass"
      [] kind = "ModelRouter" -> "ModelRouterClass"
      [] kind = "AiGatewayClass" -> "AiGateway"
      [] kind = "ModelRouterClass" -> "ModelRouter"

\* Payloads that are not of the kind: the zero objects of the other kinds
\* and the nil object.
WrongPayloads(kind) == {ZeroObject(k) : k \in Kinds \ {kind}} \cup {NilObject}

\* The prior objects of an update: one of the kind, one of another kind.
OldObjects(kind) == {ZeroObject(kind), ZeroObject(OtherKind(kind))}

ClassCandidates(kind) ==
    {ClassObject(kind, ns, n, a, testController) :
        ns \in Namespaces, n \in Names, a \in CandidateAnnotations}

StoredObjects ==
    {ClassObject(k, ns, n, a, testController) :
        k \in ClassKinds, ns \in Namespaces, n \in StoredNames,
        a \in StoredAnnotations}

\* The stores of at most n class objects, one object per key.
RECURSIVE Stores(_)
Stores(n) ==
    IF n = 0 THEN {{}}
    ELSE LET smaller == Stores(n - 1)
         IN  smaller \cup
             UNION {{s \cup {o} :
                       o \in {x \in StoredObjects :
                                \A y \in s : ObjectKey(y) # ObjectKey(x)}} :
                    s \in smaller}

Ports == {-1, 0, 1, 4000, 8080}

ModelNames ==
    {"", "gpt-4", "openai/gpt-4", "/gpt-4", "openai/", "a/b/c", "a/b/"}

Providers == {"", "openai"}

RouterTypes == {"", "litellm"}

SeqsUpTo(S, n) == UNION {[1..k -> S] : k \in 0..n}

AiGatewayObject(port, models) ==
    [type |-> "AiGateway", namespace |-> "default", name |-> "gw",
     Port |-> port, AiModels |-> models]

ModelRouterObject(type, port, models) ==
    [type |-> "ModelRouter", namespace |-> "default", name |-> "router",
     Type |-> type, Port |-> port, AiModels |-> models]

InstanceCandidates(kind) ==
    IF kind = "AiGateway"
    THEN {AiGatewayObject(p, m) :
            p \in Ports,
            m \in SeqsUpTo([Name : ModelNames, Provider : Providers],
                           MaxModels)}
    ELSE {ModelRouterObject(t, p, m) :
            t \in RouterTypes, p \in Ports,
            m \in SeqsUpTo([Name : ModelNames], MaxModels)}

\* A few instance candidates, for the runs that vary the store.
FewInstanceCandidates(kind) ==
    IF kind = "AiGateway"
    THEN {AiGatewayObject(p, <<[Name |-> "openai/gpt-4", Provider |-> "openai"]>>) :
            p \in {0, 4000}}
    ELSE {ModelRouterObject("litellm", p, <<[Name |-> "openai/gpt-4"]>>) :
            p \in {0, 4000}}

(***************************************************************************)
(* Actions: one admission call at a time, answered before the next.        *)
(***************************************************************************)
DoValidateCreate(kind, payloads) ==
    /\ res = NoCall
    /\ \E obj \in payloads, v \in Validators(kind),
          list \in Listings(store, kind, ListErrors) :
          res' = Call("ValidateCreate", kind, v, NilObject, obj, list,
                      ValidateCreate(kind, v, obj, list), obj)
    /\ UNCHANGED <<store, inflight, removed>>

\* Mutant of DoValidateUpdate: the validator writes the object it accepts
\* to the store through its client.
DoValidateUpdateMut(kind, payloads) ==
    /\ res = NoCall
    /\ \E newObj \in payloads, oldObj \in OldObjects(kind),
          v \in Validators(kind),
          list \in Listings(store, kind, ListErrors) :
          LET ret == ValidateUpdate(kind, v, oldObj, newObj, list)
          IN  /\ res' = Call("ValidateUpdate", kind, v, oldObj, newObj, list,
                             ret, newObj)
              /\ store' = IF Accepted(ret) /\ newObj.type \in ClassKinds
                          THEN store \cup {newObj} ELSE store
    /\ UNCHANGED <<inflight, removed>>

DoValidateUpdate(kind, payloads) ==
    /\ res = NoCall
    /\ \E newObj \in payloads, oldObj \in OldObjects(kind),
          v \in Validators(kind),
          list \in Listings(store, kind, ListErrors) :
          res' = Call("ValidateUpdate", kind, v, oldObj, newObj, list,
                      ValidateUpdate(kind, v, oldObj, newObj, list), newObj)
    /\ UNCHANGED <<store, inflight, removed>>

DoValidateDelete(kind, payloads) ==
    /\ res = NoCall
    /\ \E obj \in payloads, v \in Validators(kind) :
          res' = Call("ValidateDelete", kind, v, NilObject, obj, NoList,
                      ValidateDelete(kind, v, obj), obj)
    /\ UNCHANGED <<store, inflight, removed>>

DoDefault(kind, payloads) ==
    /\ res = NoCall
    /\ \E obj \in payloads :
          LET d == Default(kind, obj)
          IN  res' = Call("Default", kind, [Client |-> "none"], NilObject,
                          obj, NoList, Return(d.err, 0), d.obj)
    /\ UNCHANGED <<store, inflight, removed>>

\* A call record that also holds the object as it was submitted, before
\* the defaulter ran.
WithSubmitted(call, submitted) ==
    [f \in DOMAIN call \cup {"submitted"} |->
        IF f = "submitted" THEN submitted ELSE call[f]]

\* The mutating webhook runs before the validating one: the validator is
\* called with the object as the defaulter left it.
DoValidateDefaulted(kind) ==
    /\ res # NoCall
    /\ res.op = "Default"
    /\ res.kind = kind
    /\ res.ret.err = NoError
    /\ \E v \in Validators(kind) :
          \/ res' = WithSubmitted(
                      Call("ValidateCreate", kind, v, NilObject, res.after,
                           NoList,
                           ValidateCreate(kind, v, res.after, NoList),
                           res.after), res.obj)
          \/ res' = WithSubmitted(
                      Call("ValidateUpdate", kind, v, ZeroObject(kind),
                           res.after, NoList,
                           ValidateUpdate(kind, v, ZeroObject(kind),
                                          res.after, NoList),
                           res.after), res.obj)
    /\ UNCHANGED <<store, inflight, removed>>

\* The transport takes the answer.
Respond ==
    /\ res # NoCall
    /\ res' = NoCall
    /\ UNCHANGED <<store, inflight, removed>>

(***************************************************************************)
(* Spec: the validators of the four kinds called against any store of      *)
(* class objects.                                                          *)
(***************************************************************************)
SpecPayloads(kind) ==
    WrongPayloads(kind) \cup
        (IF kind \in ClassKinds THEN ClassCandidates(kind)
         ELSE FewInstanceCandidates(kind))

Init ==
    /\ store \in Stores(MaxStore)
    /\ res = NoCall
    /\ inflight = {}
    /\ removed = NoClass

Next ==
    \/ \E kind \in Kinds : DoValidateCreate(kind, SpecPayloads(kind))
    \/ \E kind \in Kinds : DoValidateUpdate(kind, SpecPayloads(kind))
    \/ \E kind \in Kinds : DoValidateDelete(kind, SpecPayloads(kind))
    \/ Respond

Spec == Init /\ [][Next]_vars

(***************************************************************************)
(* SpecInstance: the defaulters and validators of the two instance kinds.  *)
(***************************************************************************)
InstancePayloads(kind) == WrongPayloads(kind) \cup InstanceCandidates(kind)

InitInstance ==
    /\ store = {}
    /\ res = NoCall
    /\ inflight = {}
    /\ removed = NoClass

NextInstance ==
    \/ \E kind \in InstanceKinds :
          DoValidateCreate(kind, InstancePayloads(kind))
    \/ \E kind \in InstanceKinds :
          DoValidateUpdate(kind, InstancePayloads(kind))
    \/ \E kind \in InstanceKinds :
          DoValidateDelete(kind, InstancePayloads(kind))
    \/ \E kind \in InstanceKinds : DoDefault(kind, InstancePayloads(kind))
    \/ \E kind \in InstanceKinds : DoValidateDefaulted(kind)
    \/ Respond

SpecInstance == InitInstance /\ [][NextInstance]_vars

(***************************************************************************)
(* The API server around the class webhooks: an admission that the         *)
(* validator accepts is persisted in the store.                            *)
(***************************************************************************)
Controllers == {testController, "updated-controller"}

\* The class objects that users submit.
SubmittedClasses(kind) ==
    {ClassObject(kind, ns, n, a, c) :
        ns \in Namespaces, n \in StoredNames,
        a \in {NilAnnotations,
               MakeAnnotations(DefaultClassAnnotation(kind), "true")},
        c \in Controllers}

HasKey(objects, key) == \E o \in objects : ObjectKey(o) = key

\* The store after the request of an accepted call is carried out; a create
\* of a key that exists and an update of a key that is gone fail in the
\* store and change nothing.
Persist(objects, call) ==
    CASE call.op = "ValidateCreate" ->
           IF HasKey(objects, ObjectKey(call.obj)) THEN objects
           ELSE objects \cup {call.obj}
      [] call.op = "ValidateUpdate" ->
           IF HasKey(objects, ObjectKey(call.obj))
           THEN {o \in objects : ObjectKey(o) # ObjectKey(call.obj)}
                  \cup {call.obj}
           ELSE objects
      [] call.op = "ValidateDelete" ->
           {o \in objects : ObjectKey(o) # ObjectKey(call.obj)}

AfterAdmission(objects, call) ==
    IF Accepted(call.ret) THEN Persist(objects, call) ELSE objects

\* The record of the default class that left the store last: a step from
\* before to after in which a stored default is deleted, or updated so that
\* it is no longer marked default, names it; any other step keeps prev.
LastRemoved(prev, before, after) ==
    LET gone == {o \in before :
                   /\ IsMarkedDefault(o.annotations,
                                      DefaultClassAnnotation(o.type))
                   /\ ~\E n \in after :
                         /\ ObjectKey(n) = ObjectKey(o)
                         /\ IsMarkedDefault(n.annotations,
                                            DefaultClassAnnotation(n.type))}
    IN  IF gone = {} THEN prev
        ELSE LET o == CHOOSE x \in gone : TRUE
             IN  [kind |-> o.type, name |-> o.name]

\* The admission calls the API server makes for a create, an update and a
\* delete of a class object, given the objects users may submit.
CreateCalls(kind, submitted) ==
    {Call("ValidateCreate", kind, v, NilObject, obj, list,
          ValidateCreate(kind, v, obj, list), obj) :
        obj \in {o \in submitted : ~HasKey(store, ObjectKey(o))},
        v \in Validators(kind),
        list \in Listings(store, kind, {"connection refused"})}

UpdateCalls(kind, submitted) ==
    UNION {{Call("ValidateUpdate", kind, v, oldObj, newObj, list,
                 ValidateUpdate(kind, v, oldObj, newObj, list), newObj) :
               newObj \in {o \in submitted :
                             ObjectKey(o) = ObjectKey(oldObj) /\ o # oldObj},
               v \in Validators(kind),
        list \in Listings(store, kind, {"connection refused"})} :
           oldObj \in {o \in store : o.type = kind}}

DeleteCalls(kind) ==
    {Call("ValidateDelete", kind, v, NilObject, obj, NoList,
          ValidateDelete(kind, v, obj), obj) :
        obj \in {o \in store : o.type = kind}, v \in Validators(kind)}

(***************************************************************************)
(* SpecSeq: from the empty store, one admission at a time, each carried    *)
(* out in the store before the next begins.                                *)
(***************************************************************************)
ApiCreate(kind) ==
    /\ res = NoCall
    /\ Cardinality(store) < MaxStore
    /\ \E call \in CreateCalls(kind, SubmittedClasses(kind)) :
          /\ res' = call
          /\ store' = AfterAdmission(store, call)
          /\ removed' = LastRemoved(removed, store,
                                    AfterAdmission(store, call))
    /\ UNCHANGED inflight

ApiUpdate(kind) ==
    /\ res = NoCall
    /\ \E call \in UpdateCalls(kind, SubmittedClasses(kind)) :
          /\ res' = call
          /\ store' = AfterAdmission(store, call)
          /\ removed' = LastRemoved(removed, store,
                                    AfterAdmission(store, call))
    /\ UNCHANGED inflight

ApiDelete(kind) ==
    /\ res = NoCall
    /\ \E call \in DeleteCalls(kind) :
          /\ res' = call
          /\ store' = AfterAdmission(store, call)
          /\ removed' = LastRemoved(removed, store,
                                    AfterAdmission(store, call))
    /\ UNCHANGED inflight

InitSeq ==
    /\ store = {}
    /\ res = NoCall
    /\ inflight = {}
    /\ removed = NoClass

NextSeq ==
    \/ \E kind \in ClassKinds : ApiCreate(kind)
    \/ \E kind \in ClassKinds : ApiUpdate(kind)
    \/ \E kind \in ClassKinds : ApiDelete(kind)
    \/ Respond

SpecSeq == InitSeq /\ [][NextSeq]_vars

(***************************************************************************)
(* SpecRace: admissions handled in parallel.  A handler lists the store    *)
(* and decides in one step; its request is carried out in the store in a   *)
(* later step, and other handlers may decide in between.  The history of   *)
(* removed defaults is kept by SpecSeq only.                               *)
(***************************************************************************)
RaceClasses(kind) ==
    {o \in SubmittedClasses(kind) :
        o.namespace = "default" /\ o.controller = testController}

RaceAdmitCreate(kind) ==
    /\ Cardinality(inflight) < MaxInflight
    /\ \E call \in CreateCalls(kind, RaceClasses(kind)) :
          inflight' = inflight \cup {call}
    /\ UNCHANGED <<store, res, removed>>

RaceAdmitUpdate(kind) ==
    /\ Cardinality(inflight) < MaxInflight
    /\ \E call \in UpdateCalls(kind, RaceClasses(kind)) :
          inflight' = inflight \cup {call}
    /\ UNCHANGED <<store, res, removed>>

RaceAdmitDelete(kind) ==
    /\ Cardinality(inflight) < MaxInflight
    /\ \E call \in DeleteCalls(kind) :
          inflight' = inflight \cup {call}
    /\ UNCHANGED <<store, res, removed>>

\* The handler's answer reaches the API server, which carries the request
\* out if it was accepted.
RaceComplete ==
    /\ \E call \in inflight :
          /\ Cardinality(AfterAdmission(store, call)) <= MaxStore
          /\ store' = AfterAdmission(store, call)
          /\ inflight' = inflight \ {call}
    /\ UNCHANGED <<res, removed>>

NextRace ==
    \/ \E kind \in ClassKinds : RaceAdmitCreate(kind)
    \/ \E kind \in ClassKinds : RaceAdmitUpdate(kind)
    \/ \E kind \in ClassKinds : RaceAdmitDelete(kind)
    \/ RaceComplete

SpecRace == InitSeq /\ [][NextRace]_vars

(***************************************************************************)
(* The claims.  What a claim says of an object is written here from the    *)
(* object's fields, not with the definitions of the validators.            *)
(***************************************************************************)
\* The object carries the reserved annotation of the kind with value "true".
CarriesDefault(o, kind) ==
    /\ ~o.annotations.isNil
    /\ DefaultClassAnnotation(kind) \in DOMAIN o.annotations.kv
    /\ o.annotations.kv[DefaultClassAnnotation(kind)] = "true"

\* The call is a create or an update of a class kind whose payload is of
\* the kind.
IsClassAdmission(call) ==
    /\ call # NoCall
    /\ call.op \in {"ValidateCreate", "ValidateUpdate"}
    /\ call.kind \in ClassKinds
    /\ call.obj.type = call.kind

ClassAdmission == IsClassAdmission(res)

\* The items of the call's listing that have another name than the
\* candidate and are marked default.
ConflictsOf(call) ==
    {i \in 1..Len(call.list.items) :
        /\ call.list.items[i].name # call.obj.name
        /\ CarriesDefault(call.list.items[i], call.kind)}

Conflicts == ConflictsOf(res)

\* The objects of the kind that are marked default.
DefaultsOf(objects, kind) ==
    {o \in objects : o.type = kind /\ CarriesDefault(o, kind)}

IsConflictMessage(msg) ==
    Contains(msg, "already has the default class annotation set to 'true'")

\* C1: a create or update of a class candidate marked default, whose
\* listing holds an object of another name that is marked default, is
\* rejected, and the message names such an object of the listing.
C1_ConflictIsRejected ==
    (/\ ClassAdmission
     /\ CarriesDefault(res.obj, res.kind)
     /\ res.list.ok
     /\ Conflicts # {})
    => /\ Rejected(res.ret)
       /\ IsConflictMessage(res.ret.err.msg)
       /\ \E i \in Conflicts :
             Contains(res.ret.err.msg,
                      "another " \o res.kind \o " '"
                        \o res.list.items[i].name \o "'")

C1_Witness ==
    /\ ClassAdmission
    /\ res.op = "ValidateUpdate"
    /\ res.kind = "ModelRouterClass"
    /\ CarriesDefault(res.obj, res.kind)
    /\ res.list.ok
    /\ Conflicts # {}
    /\ Rejected(res.ret)
    /\ Contains(res.ret.err.msg, "'c2'")

\* C2: with admissions processed one at a time from the empty store, the
\* store never holds two objects of one class kind that are marked default.
C2_AtMostOneDefault ==
    \A kind \in ClassKinds : Cardinality(DefaultsOf(store, kind)) <= 1

\* C3: an admission of a candidate marked default whose own listing shows no
\* default of another name is accepted, whatever other admissions are
\* decided and not yet persisted: nothing serializes check-then-accept.
C3_AcceptedOnOwnListing ==
    \A call \in inflight :
        (/\ IsClassAdmission(call)
         /\ CarriesDefault(call.obj, call.kind)
         /\ call.list.ok
         /\ ConflictsOf(call) = {})
        => Accepted(call.ret)

\* C3: the store holds two defaults of one kind with different names.
C3_Witness ==
    \E a \in store, b \in store :
        /\ a.type = b.type
        /\ a.name # b.name
        /\ CarriesDefault(a, a.type)
        /\ CarriesDefault(b, b.type)

\* C4: an update of the class that is the only default of the listing, which
\* keeps its default annotation, is accepted when the listing is obtained.
C4_KeepingOwnDefaultAccepted ==
    (/\ ClassAdmission
     /\ res.op = "ValidateUpdate"
     /\ CarriesDefault(res.oldObj, res.kind)
     /\ CarriesDefault(res.obj, res.kind)
     /\ res.list.ok
     /\ \A i \in 1..Len(res.list.items) :
           CarriesDefault(res.list.items[i], res.kind)
             => res.list.items[i] = res.oldObj)
    => Accepted(res.ret)

C4_Witness ==
    /\ ClassAdmission
    /\ res.op = "ValidateUpdate"
    /\ res.kind = "ModelRouterClass"
    /\ CarriesDefault(res.oldObj, res.kind)
    /\ CarriesDefault(res.obj, res.kind)
    /\ res.obj.controller # res.oldObj.controller
    /\ Len(res.list.items) = 2
    /\ res.list.items[2] = res.oldObj
    /\ Accepted(res.ret)
    /\ res.obj \in store
    /\ Cardinality(DefaultsOf(store, res.kind)) = 1

\* C5: ValidateDelete of a class kind accepts, with no warnings and no List
\* call, whatever the payload and the store.
C5_ClassDeleteAlwaysAccepts ==
    (/\ res # NoCall
     /\ res.op = "ValidateDelete"
     /\ res.kind \in ClassKinds)
    => /\ Accepted(res.ret)
       /\ res.ret.warnings = <<>>
       /\ res.ret.listCalls = 0

C5_Witness ==
    /\ res # NoCall
    /\ res.op = "ValidateDelete"
    /\ res.kind = "AiGatewayClass"
    /\ res.obj.type = "AiGateway"
    /\ \E o \in store : o.type = "AiGatewayClass" /\ CarriesDefault(o, o.type)
    /\ Accepted(res.ret)

\* C6: a class candidate that is not marked default (no annotation map, no
\* reserved key, or another value than "true") is accepted on create and
\* update, and List is not called.
C6_NonDefaultAcceptedWithoutList ==
    (ClassAdmission /\ ~CarriesDefault(res.obj, res.kind))
    => /\ Accepted(res.ret)
       /\ res.ret.listCalls = 0
       /\ res.list = NoList

C6_Witness ==
    /\ ClassAdmission
    /\ res.kind = "ModelRouterClass"
    /\ res.v.Client = "nil"
    /\ res.obj.annotations =
         MakeAnnotations(DefaultClassAnnotation(res.kind), "false")
    /\ \E o \in store : o.type = res.kind /\ CarriesDefault(o, o.type)
    /\ Accepted(res.ret)

\* C7: when the List call of a class admission fails, the admission is
\* rejected with an error that wraps the failure and is not the conflict
\* error, and List was called once.
C7_ListFailureRejects ==
    (/\ ClassAdmission
     /\ res.list # NoList
     /\ ~res.list.ok)
    => /\ Rejected(res.ret)
       /\ res.ret.listCalls = 1
       /\ res.ret.err.kind = "wrapError"
       /\ res.ret.err.wraps = res.list.cause
       /\ Contains(res.ret.err.msg,
                   "failed to list " \o res.kind \o " resources")
       /\ Contains(res.ret.err.msg, res.list.cause)
       /\ ~IsConflictMessage(res.ret.err.msg)

C7_Witness ==
    /\ ClassAdmission
    /\ res.kind = "ModelRouterClass"
    /\ CarriesDefault(res.obj, res.kind)
    /\ res.list = ListFailed("context canceled")
    /\ Rejected(res.ret)
    /\ store = {}

\* C8: create and update of each of the four kinds reject a payload of
\* another type, with an error that names the kind expected and the type
\* got, no warnings and no List call.
C8_WrongTypeRejected ==
    (/\ res # NoCall
     /\ res.op \in {"ValidateCreate", "ValidateUpdate"}
     /\ res.obj.type # res.kind)
    => /\ Rejected(res.ret)
       /\ Contains(res.ret.err.msg, "expected a " \o res.kind \o " object")
       /\ Contains(res.ret.err.msg, "but got ")
       /\ Contains(res.ret.err.msg, res.obj.type)
       /\ res.ret.warnings = <<>>
       /\ res.ret.listCalls = 0

C8_Witness ==
    /\ res # NoCall
    /\ res.op = "ValidateUpdate"
    /\ res.kind = "ModelRouter"
    /\ res.obj.type = "ModelRouterClass"
    /\ Rejected(res.ret)
    /\ store # {}

\* The answer is for the defaulter of an instance kind, called with an
\* object of the kind.
DefaultCall ==
    /\ res # NoCall
    /\ res.op = "Default"
    /\ res.obj.type = res.kind

\* C9: the defaulter makes a port of 0 4000 and leaves every other port,
\* negative ones too; it changes no other field, and run again on its
\* result it changes nothing.
C9_DefaulterSetsPortOnlyWhenZero ==
    DefaultCall
    => /\ res.ret.err = NoError
       /\ res.after.Port = (IF res.obj.Port = 0 THEN 4000 ELSE res.obj.Port)
       /\ res.after = [res.obj EXCEPT !.Port = res.after.Port]
       /\ Default(res.kind, res.after).obj = res.after
       /\ Default(res.kind, res.after).err = NoError

C9_Witness ==
    /\ DefaultCall
    /\ res.kind = "ModelRouter"
    /\ res.obj.Port = 0
    /\ res.after.Port = 4000
    /\ Len(res.after.AiModels) = 2

\* C10: a create or update of an instance candidate with a port p <= 0 is
\* rejected with a message that holds p.
C10_NonPositivePortRejectedWithValue ==
    (/\ res # NoCall
     /\ res.op \in {"ValidateCreate", "ValidateUpdate"}
     /\ res.kind \in InstanceKinds
     /\ res.obj.type = res.kind
     /\ res.obj.Port <= 0)
    => /\ Rejected(res.ret)
       /\ Contains(res.ret.err.msg, "got: " \o ToString(res.obj.Port))

\* The answer is for a create or an update of an instance kind, called
\* with an object of the kind.
InstanceAdmission ==
    /\ res # NoCall
    /\ res.op \in {"ValidateCreate", "ValidateUpdate"}
    /\ res.kind \in InstanceKinds
    /\ res.obj.type = res.kind

\* The positions of "/" in a name.
SlashesOf(n) == {i \in 1..Len(n) : SubSeq(n, i, i) = "/"}

FirstSlash(n) == CHOOSE i \in SlashesOf(n) : \A j \in SlashesOf(n) : i <= j

\* A name of the form provider/model: text before the first "/" and text
\* after it.
WellFormed(n) ==
    /\ SlashesOf(n) # {}
    /\ FirstSlash(n) > 1
    /\ FirstSlash(n) < Len(n)

\* The rules of the spec validator after the port rule, as the claims
\* state them for the compound form of the identifiers.
TypeMissing(o) == o.type = "ModelRouter" /\ o.Type = ""

NoModels(o) == Len(o.AiModels) = 0

SomeNameMalformed(o) ==
    \E i \in 1..Len(o.AiModels) : ~WellFormed(o.AiModels[i].Name)

\* C11: the rejection of an instance candidate is that of the first rule
\* that fails in the order port, type (router), model list, identifiers;
\* a router with a port <= 0 and no type gets the port error.
C11_FirstFailingRuleInOrder ==
    InstanceAdmission
    => IF res.obj.Port <= 0
       THEN /\ Rejected(res.ret)
            /\ Contains(res.ret.err.msg, "port must be positive")
       ELSE IF TypeMissing(res.obj)
       THEN /\ Rejected(res.ret)
            /\ Contains(res.ret.err.msg, "must specify a type")
       ELSE IF NoModels(res.obj)
       THEN /\ Rejected(res.ret)
            /\ Contains(res.ret.err.msg, "no AI models specified")
       ELSE Rejected(res.ret) =>
              (\/ Contains(res.ret.err.msg, "AI model")
               \/ Contains(res.ret.err.msg, "is malformed"))

\* The candidate passes the port, type and model list rules.
ReachesIdentifiers(o) ==
    o.Port > 0 /\ ~TypeMissing(o) /\ ~NoModels(o)

\* C12 as stated: a name with no "/", with "/" at position 0 or that ends
\* in "/" is rejected, and a name whose parts around the first "/" are both
\* non-empty is accepted.
C12_MalformedIdentifiersRejected ==
    (InstanceAdmission /\ ReachesIdentifiers(res.obj))
    => /\ (\E i \in 1..Len(res.obj.AiModels) :
             LET n == res.obj.AiModels[i].Name
             IN  \/ SlashesOf(n) = {}
                 \/ 1 \in SlashesOf(n)
                 \/ Len(n) \in SlashesOf(n))
          => Rejected(res.ret)
       /\ (\A i \in 1..Len(res.obj.AiModels) :
             WellFormed(res.obj.AiModels[i].Name))
          => Accepted(res.ret)

\* C12 amended: a name with no "/", with "/" at position 0 or with nothing
\* after its first "/" is rejected, with the name quoted in the message
\* unless it is empty; a candidate whose names all have text on both sides
\* of the first "/" is accepted.
C12_FirstSlashSplitsIdentifier ==
    (InstanceAdmission /\ ReachesIdentifiers(res.obj))
    => /\ SomeNameMalformed(res.obj)
          => /\ Rejected(res.ret)
             /\ LET bad == CHOOSE i \in 1..Len(res.obj.AiModels) :
                             /\ ~WellFormed(res.obj.AiModels[i].Name)
                             /\ \A j \in 1..(i - 1) :
                                   WellFormed(res.obj.AiModels[j].Name)
                    n == res.obj.AiModels[bad].Name
                IN  IF n = ""
                    THEN res.ret.err.msg = "AI model name cannot be empty"
                    ELSE /\ Contains(res.ret.err.msg, "\"" \o n \o "\"")
                         /\ Contains(res.ret.err.msg,
                                     "'provider/model-name'")
       /\ ~SomeNameMalformed(res.obj) => Accepted(res.ret)

\* C12: a name with a second "/" at its end is accepted, next to one that
\* is well formed.
C12_Witness ==
    /\ InstanceAdmission
    /\ res.kind = "ModelRouter"
    /\ ReachesIdentifiers(res.obj)
    /\ Len(res.obj.AiModels) = 2
    /\ res.obj.AiModels[1].Name = "a/b/"
    /\ res.obj.AiModels[2].Name = "openai/gpt-4"
    /\ Accepted(res.ret)

\* The answer is for a create or an update of an AiGateway with a positive
\* port and at least one model.
GatewayWithModels ==
    /\ InstanceAdmission
    /\ res.kind = "AiGateway"
    /\ res.obj.Port > 0
    /\ Len(res.obj.AiModels) > 0

\* C13: an AiGateway with a positive port whose models all have a Name and
\* a Provider is admitted on create and update; Name needs no "/".
C13_DiscreteFieldsAdmitted ==
    (/\ GatewayWithModels
     /\ \A i \in 1..Len(res.obj.AiModels) :
           /\ res.obj.AiModels[i].Name # ""
           /\ res.obj.AiModels[i].Provider # "")
    => Accepted(res.ret)

\* C14: an AiGateway whose first incomplete model has a Name and no
\* Provider is rejected with the error that the provider cannot be empty,
\* which is not the error of an empty Name.
C14_EmptyProviderRejected ==
    (/\ GatewayWithModels
     /\ \E i \in 1..Len(res.obj.AiModels) :
           /\ res.obj.AiModels[i].Name # ""
           /\ res.obj.AiModels[i].Provider = ""
           /\ \A j \in 1..(i - 1) :
                 /\ res.obj.AiModels[j].Name # ""
                 /\ res.obj.AiModels[j].Provider # "")
    => /\ Rejected(res.ret)
       /\ Contains(res.ret.err.msg, "AI model provider cannot be empty")
       /\ ~Contains(res.ret.err.msg, "AI model name cannot be empty")

\* C15: ValidateDelete of an instance kind rejects a payload of another
\* type with an error that names the kind expected and the type got, and
\* accepts every payload of the kind, whatever its spec.
C15_InstanceDeleteTypeCheckedOnly ==
    (/\ res # NoCall
     /\ res.op = "ValidateDelete"
     /\ res.kind \in InstanceKinds)
    => IF res.obj.type = res.kind
       THEN /\ Accepted(res.ret)
            /\ res.ret.warnings = <<>>
       ELSE /\ Rejected(res.ret)
            /\ Contains(res.ret.err.msg,
                        "expected a " \o res.kind \o " object but got ")
            /\ Contains(res.ret.err.msg, res.obj.type)

\* C15: a router that create and update reject (no type, port -1, a
\* malformed name) is accepted on delete.
C15_Witness ==
    /\ res # NoCall
    /\ res.op = "ValidateDelete"
    /\ res.kind = "ModelRouter"
    /\ res.obj.type = "ModelRouter"
    /\ res.obj.Type = ""
    /\ res.obj.Port = -1
    /\ Len(res.obj.AiModels) = 1
    /\ res.obj.AiModels[1].Name = "gpt-4"
    /\ Accepted(res.ret)

\* The listings an answered call may have been given: the one it recorded
\* when it called List, any listing of the store when it did not.
ListingsOf(call) ==
    IF call.ret.listCalls > 0 THEN {call.list}
    ELSE Listings(store, call.kind, ListErrors)

\* C16: the answer of ValidateUpdate is the same for every prior object,
\* of the kind, of another kind or nil, and it accepts exactly when
\* ValidateCreate of the proposed object accepts.
C16_UpdateIgnoresPriorObject ==
    (res # NoCall /\ res.op = "ValidateUpdate")
    => \A list \in ListingsOf(res) :
          /\ \A oldObj \in OldObjects(res.kind) \cup {NilObject} :
                ValidateUpdate(res.kind, res.v, oldObj, res.obj, list)
                  = res.ret
          /\ ValidateCreate(res.kind, res.v, res.obj, list).outcome
               = res.ret.outcome
          /\ Accepted(ValidateCreate(res.kind, res.v, res.obj, list))
               <=> Accepted(res.ret)

\* C16: an update of a class marked default is accepted with a prior
\* object of another kind.
C16_Witness ==
    /\ res # NoCall
    /\ res.op = "ValidateUpdate"
    /\ res.kind = "AiGatewayClass"
    /\ res.oldObj.type = "AiGateway"
    /\ res.obj.type = "AiGatewayClass"
    /\ CarriesDefault(res.obj, res.kind)
    /\ res.ret.listCalls = 1
    /\ Accepted(res.ret)

\* The stored objects of the call's kind, with another name than the
\* candidate, that are marked default with the annotation of the kind.
StoredConflictsOf(call) ==
    {o \in store :
        /\ o.type = call.kind
        /\ o.name # call.obj.name
        /\ CarriesDefault(o, call.kind)}

\* C17: the admission of a class candidate marked default is decided by the
\* stored classes of its own kind that carry the annotation of its own
\* family; classes of the other kind, default or not, and annotations of
\* the other family change nothing.
C17_IndependentSingletonDomains ==
    (/\ ClassAdmission
     /\ CarriesDefault(res.obj, res.kind)
     /\ res.list.ok)
    => /\ Accepted(res.ret) <=> StoredConflictsOf(res) = {}
       /\ \A i \in 1..Len(res.list.items) :
             res.list.items[i].type = res.kind

\* C17: a default AiGatewayClass is accepted while the store holds a
\* default ModelRouterClass of another name and an AiGatewayClass that
\* carries the annotation of the router family.
C17_Witness ==
    /\ ClassAdmission
    /\ res.kind = "AiGatewayClass"
    /\ CarriesDefault(res.obj, res.kind)
    /\ res.list.ok
    /\ Accepted(res.ret)
    /\ \E o \in store :
          /\ o.type = "ModelRouterClass"
          /\ o.name # res.obj.name
          /\ CarriesDefault(o, "ModelRouterClass")
    /\ \E o \in store :
          /\ o.type = "AiGatewayClass"
          /\ o.name # res.obj.name
          /\ CarriesDefault(o, "ModelRouterClass")

\* The answer is that of the validator called with what the defaulter made
\* of an object submitted with port 0.
ValidatedAfterDefault ==
    /\ res # NoCall
    /\ "submitted" \in DOMAIN res
    /\ res.submitted.Port = 0

Occurrences(text, part) ==
    Cardinality({i \in 1..(Len(text) - Len(part) + 1) :
                   SubSeq(text, i, i + Len(part) - 1) = part})

\* The first conflict of the call's listing, in listing order.
FirstConflict ==
    CHOOSE i \in Conflicts : \A j \in Conflicts : i <= j

\* C20: with conflicts in the listing, the rejection holds one conflict
\* error; it names the first conflicting item in listing order and no
\* later item of another name.
C20_FirstConflictNamed ==
    (/\ ClassAdmission
     /\ CarriesDefault(res.obj, res.kind)
     /\ res.list.ok
     /\ Conflicts # {})
    => /\ Rejected(res.ret)
       /\ Occurrences(res.ret.err.msg, "another " \o res.kind \o " '") = 1
       /\ Occurrences(res.ret.err.msg, "Invalid value") = 1
       /\ Contains(res.ret.err.msg,
            "another " \o res.kind \o " '"
              \o res.list.items[FirstConflict].name \o "' already has")
       /\ \A i \in Conflicts :
             res.list.items[i].name # res.list.items[FirstConflict].name
               => ~Contains(res.ret.err.msg,
                            "'" \o res.list.items[i].name \o "'")

\* C20: the listing holds two defaults of different names besides the
\* candidate, and the second in listing order is "c1".
C20_Witness ==
    /\ ClassAdmission
    /\ res.kind = "ModelRouterClass"
    /\ CarriesDefault(res.obj, res.kind)
    /\ res.list.ok
    /\ Cardinality(Conflicts) = 2
    /\ res.list.items[1].name = "c2"
    /\ res.list.items[2].name = "c1"
    /\ Rejected(res.ret)
    /\ Contains(res.ret.err.msg, "'c2'")

RegisteredValidator(kind) ==
    IF kind = "AiGatewayClass" THEN SetupAiGatewayClassWebhookWithManager
    ELSE SetupModelRouterClassWebhookWithManager

\* C22: the registered validator of each class kind has a client, and its
\* create or update of a candidate marked default returns: it accepts,
\* rejects with the conflict error or rejects with the list failure.
C22_RegisteredValidatorCanList ==
    (/\ ClassAdmission
     /\ CarriesDefault(res.obj, res.kind)
     /\ res.v = RegisteredValidator(res.kind))
    => /\ res.v.Client = "client"
       /\ res.ret.outcome = "return"
       /\ res.ret.listCalls = 1
       /\ \/ Accepted(res.ret)
          \/ IsConflictMessage(res.ret.err.msg)
          \/ res.ret.err.kind = "wrapError"

\* The store holds two defaults of the kind with different names.
TwoDefaults(kind) ==
    \E a \in DefaultsOf(store, kind), b \in DefaultsOf(store, kind) :
        a.name # b.name

\* C23: while the store holds two differently named defaults of a kind, no
\* create or update of a candidate of the kind marked default is accepted,
\* whatever its name: a validator that lists rejects it, with the conflict
\* error when the listing is obtained; a candidate not marked default is
\* accepted.
C23_DoubleDefaultLocksOut ==
    (ClassAdmission /\ TwoDefaults(res.kind))
    => IF CarriesDefault(res.obj, res.kind)
       THEN /\ ~Accepted(res.ret)
            /\ res.ret.listCalls = 1
                 => /\ Rejected(res.ret)
                    /\ res.list.ok => IsConflictMessage(res.ret.err.msg)
       ELSE Accepted(res.ret)

\* C23: the update of one of the two stored defaults, keeping its flag, is
\* rejected with the conflict error that names the other.
C23_Witness ==
    /\ ClassAdmission
    /\ res.op = "ValidateUpdate"
    /\ res.kind = "ModelRouterClass"
    /\ TwoDefaults(res.kind)
    /\ res.obj \in store
    /\ CarriesDefault(res.obj, res.kind)
    /\ res.list.ok
    /\ Rejected(res.ret)
    /\ IsConflictMessage(res.ret.err.msg)

\* C24: after a default of the kind with another name has left the store
\* (deleted, or updated so that it is no longer default), a candidate
\* marked default whose listing shows no other default is accepted.
C24_DecisionFromCurrentListing ==
    (/\ ClassAdmission
     /\ CarriesDefault(res.obj, res.kind)
     /\ res.list.ok
     /\ removed.kind = res.kind
     /\ removed.name # res.obj.name
     /\ Conflicts = {})
    => Accepted(res.ret)

\* C24: class B marked default was created and is the only default of the
\* store, after the default A of another name left the store.
C24_Witness ==
    /\ ClassAdmission
    /\ res.op = "ValidateCreate"
    /\ res.kind = "AiGatewayClass"
    /\ removed.kind = res.kind
    /\ removed.name # res.obj.name
    /\ Accepted(res.ret)
    /\ res.ret.listCalls = 1
    /\ DefaultsOf(store, res.kind) = {res.obj}
    /\ \A o \in store : o.name # removed.name

====
